---- MODULE Spec2Model ----
(***************************************************************************)
(* Model of the stock-coverage report script (src/app.py, src/app3.py).    *)
(*                                                                         *)
(* The script reads one uploaded table (df), groups it by branch           *)
(* ("filial"), computes the coverage summary (cobertura), the bucketed     *)
(* distribution of pending-order value (resumo_valores), its percentage    *)
(* form (resumo_percentuais) and writes the three tables one under the     *)
(* other on a single worksheet (ws) with escrever_tabela_com_estilo.       *)
(*                                                                         *)
(* Numbers: coverage days, stock values and pending-order values are       *)
(* integers here; every quantity the script rounds with .round(2) is kept  *)
(* as an integer number of hundredths (1000 stands for 10.00).             *)
(* A float that is not a number is a record with tipo "nan", "inf" or      *)
(* "-inf".                                                                 *)
(***************************************************************************)
EXTENDS Integers, Sequences, FiniteSets

VARIABLES
    df,                 \* the uploaded rows, in file order
    observed,           \* the installed pandas' default for groupby(observed=)
    pc,                 \* position of the script
    faixa,              \* the df['faixa'] column (one label per row of df)
    cobertura,          \* branch -> [ponderada, simples, saldo]
    resumo_valores,     \* [colunas, linhas]: the absolute distribution table
    resumo_percentuais, \* [colunas, linhas]: the percent distribution table
    tabelas,            \* the three frames handed to the sheet writer: [n, cols]
    ws,                 \* cells written on the worksheet
    merged,             \* merged ranges of the worksheet
    linha_atual,        \* the row cursor chained through the three calls
    chamadas            \* the calls of escrever_tabela_com_estilo made so far

vars == <<df, observed, pc, faixa, cobertura, resumo_valores, resumo_percentuais,
          tabelas, ws, merged, linha_atual, chamadas>>

----------------------------------------------------------------------------
(* Bounds of the model *)

MaxLinhasDf == 2      \* rows of an uploaded table
MaxValor == 2         \* largest bucket value of a drawn distribution row
MaxLinhas == 2        \* data rows of a drawn frame
MaxColunas == 3       \* columns of a drawn frame
MargemCobertura == 3  \* coverage values swept below the first and above the last edge

----------------------------------------------------------------------------
(* Input domains *)

Filiais == {"A", "B"}
Coberturas == {-5, 10, 20}
ValoresEstoque == {-50, 0, 100}
Saldos == {0, 30}

LinhasDf == [filial : Filiais, cobertura_dias : Coberturas,
             valor_estoque : ValoresEstoque, saldo_pedido : Saldos]

----------------------------------------------------------------------------
(* Helpers *)

RECURSIVE SomaSeq(_)
SomaSeq(s) == IF s = <<>> THEN 0 ELSE Head(s) + SomaSeq(Tail(s))

Coluna(d, c) == [i \in DOMAIN d |-> d[i][c]]

Abs(x) == IF x < 0 THEN -x ELSE x

\* numpy's round(2) of the exact quotient num/den (den > 0), in hundredths:
\* nearest hundredth, an exact half going to the even neighbour.
Round2(num, den) ==
    LET s == 100 * num
        fl == s \div den
        rem == s - fl * den
    IN  IF 2 * rem < den THEN fl
        ELSE IF 2 * rem > den THEN fl + 1
        ELSE IF fl % 2 = 0 THEN fl ELSE fl + 1

----------------------------------------------------------------------------
(* Bucketing: pd.cut(bins=[-inf, 0, 15, 30, 45, 60, inf], right=False) *)

\* The finite bin edges; the outer edges are -inf and +inf.
Bins == <<0, 15, 30, 45, 60>>

Labels == <<"<=0 dias", "1-15 dias", "16-30 dias", "31-45 dias", "46-60 dias",
            "Mais de 60 dias">>

\* The label pd.cut gives a value that falls in no bin (a missing category).
NaN == "NaN"

Range(s) == {s[i] : i \in DOMAIN s}

\* pd.cut with right=True (the library's default): intervals (lower, upper].
CutRightTrue(c) == Labels[1 + Cardinality({i \in DOMAIN Bins : Bins[i] < c})]

\* pd.cut with the bins starting at 0 instead of -inf: a negative value falls
\* in no bin.
CutSemInf(c) ==
    IF c < Bins[1] THEN NaN
    ELSE Labels[1 + Cardinality({i \in DOMAIN Bins : Bins[i] <= c})]

\* right=False: the value falls in [lower, upper), so the bin of c is counted
\* by the edges that are <= c.
Cut(c) == Labels[1 + Cardinality({i \in DOMAIN Bins : Bins[i] <= c})]

\* df['faixa'] = pd.cut(df['cobertura_dias'], ...)
Faixas(d) == [i \in DOMAIN d |-> Cut(d[i].cobertura_dias)]

----------------------------------------------------------------------------
(* Coverage summary: df.groupby("filial") *)

\* The group keys of df.groupby("filial"), taken after filtering the rows
\* with positive stock value (the filter moved out of the weighted mean).
GruposFilialFiltrado(d) == {d[i].filial : i \in {j \in DOMAIN d : d[j].valor_estoque > 0}}

\* The group keys of df.groupby("filial"): the branches that have a row.
GruposFilial(d) == {d[i].filial : i \in DOMAIN d}

Grupo(d, f) == SelectSeq(d, LAMBDA r : r.filial = f)

\* saldo_totais = df.groupby("filial")["saldo_pedido"].sum()
saldo_totais(d) ==
    [f \in GruposFilial(d) |-> SomaSeq(Coluna(Grupo(d, f), "saldo_pedido"))]

Produto(a, b) == [i \in DOMAIN a |-> a[i] * b[i]]

\* np.average(values, weights) over every row of the group, with no filter.
calcular_media_ponderada_sem_filtro(grupo) ==
    LET w == SomaSeq(Coluna(grupo, "valor_estoque"))
        s == SomaSeq(Produto(Coluna(grupo, "cobertura_dias"), Coluna(grupo, "valor_estoque")))
    IN  IF w = 0 THEN [num |-> 0, den |-> 1]
        ELSE IF w < 0 THEN [num |-> -s, den |-> -w]
        ELSE [num |-> s, den |-> w]

\* The exact quotient [num, den] the function returns (den > 0).
calcular_media_ponderada(grupo) ==
    LET g == SelectSeq(grupo, LAMBDA r : r.valor_estoque > 0)
    IN  IF g = <<>> THEN [num |-> 0, den |-> 1]
        ELSE [num |-> SomaSeq(Produto(Coluna(g, "cobertura_dias"), Coluna(g, "valor_estoque"))),
              den |-> SomaSeq(Coluna(g, "valor_estoque"))]

calcular_media_simples(grupo) ==
    [num |-> SomaSeq(Coluna(grupo, "cobertura_dias")), den |-> Len(grupo)]

ColunasCobertura == <<"Filial", "Cobertura Media Ponderada (dias)",
                      "Cobertura Media Simples (dias)", "Saldo Pedido Total">>

\* groupby.apply(...).round(2).reset_index(), then the "Saldo Pedido Total" column.
Cobertura(d) ==
    [f \in GruposFilial(d) |->
        LET p == calcular_media_ponderada(Grupo(d, f))
            m == calcular_media_simples(Grupo(d, f))
        IN  [ponderada |-> Round2(p.num, p.den),
             simples |-> Round2(m.num, m.den),
             saldo |-> saldo_totais(d)[f]]]

----------------------------------------------------------------------------
(* Distribution: df.groupby(['filial', 'faixa'])['saldo_pedido'].sum()       *)
(*                 .unstack().fillna(0), the TOTAL column, reset_index()    *)

\* Rows the grouping keeps: a row whose key is missing is dropped (dropna).
Validas(fx) == {i \in DOMAIN fx : fx[i] # NaN}

\* The bucket columns of the unstacked frame, in category order. With
\* observed=False every category is a group; with observed=True only the
\* categories some row falls in.
ColunasFaixa(fx, obs) ==
    IF obs THEN SelectSeq(Labels, LAMBDA l : l \in {fx[i] : i \in Validas(fx)})
    ELSE Labels

\* The branches of the grouped frame.
FiliaisFaixa(d, fx, obs) ==
    IF obs THEN {d[i].filial : i \in Validas(fx)}
    ELSE {d[i].filial : i \in DOMAIN d}

ComFaixa(d, fx) ==
    [i \in DOMAIN d |-> [filial |-> d[i].filial, faixa |-> fx[i],
                         saldo_pedido |-> d[i].saldo_pedido]]

\* Sum of saldo_pedido of the group (f, l); an empty group sums to 0
\* (observed=False) or is missing and filled with 0 by fillna (observed=True).
SomaGrupo(d, fx, f, l) ==
    SomaSeq(Coluna(SelectSeq(ComFaixa(d, fx), LAMBDA r : r.filial = f /\ r.faixa = l),
                   "saldo_pedido"))

\* resumo_valores.sum(axis=1): the sum of the row over the bucket columns.
SomaLinha(cols, b) == SomaSeq([j \in DOMAIN cols |-> b[cols[j]]])

ResumoValores(d, fx, obs) ==
    LET cols == ColunasFaixa(fx, obs)
        linha(f) ==
            LET b == [l \in Range(cols) |-> SomaGrupo(d, fx, f, l)]
            IN  [c \in Range(cols) \cup {"TOTAL"} |->
                    IF c = "TOTAL" THEN SomaLinha(cols, b) ELSE b[c]]
    IN  [colunas |-> <<"filial">> \o cols \o <<"TOTAL">>,
         linhas |-> [f \in FiliaisFaixa(d, fx, obs) |-> linha(f)]]

----------------------------------------------------------------------------
(* Percent table: (col / TOTAL * 100).round(2) for col in columns[1:-1]      *)

Num(v) == [tipo |-> "num", v |-> v]

\* Truncation to 2 decimals instead of rounding.
PercentualTruncado(valor, total) ==
    IF total = 0 THEN [tipo |-> "nan", v |-> 0]
    ELSE IF total > 0 THEN Num((10000 * valor) \div total)
    ELSE Num((-10000 * valor) \div (-total))

\* Float division: x/0 is nan for x = 0, inf or -inf otherwise; no exception.
Percentual(valor, total) ==
    IF total = 0
    THEN IF valor = 0 THEN [tipo |-> "nan", v |-> 0]
         ELSE IF valor > 0 THEN [tipo |-> "inf", v |-> 0]
         ELSE [tipo |-> "-inf", v |-> 0]
    ELSE IF total > 0 THEN Num(Round2(100 * valor, total))
    ELSE Num(Round2(-100 * valor, -total))

ResumoPercentuais(rv) ==
    LET alvo == SubSeq(rv.colunas, 2, Len(rv.colunas) - 1)
    IN  [colunas |-> SubSeq(rv.colunas, 1, Len(rv.colunas) - 1),
         linhas |-> [f \in DOMAIN rv.linhas |->
                        [c \in Range(alvo) |->
                            Percentual(rv.linhas[f][c], rv.linhas[f]["TOTAL"])]]]

----------------------------------------------------------------------------
(* Sheet writer: escrever_tabela_com_estilo(ws, df, titulo, linha_inicial)   *)

\* A frame as the writer sees it: len(df) data rows and df.shape[1] columns.
Quadro(n, cols) == [n |-> n, cols |-> cols]

\* The three frames of the report, in the order they are written.
QuadrosDoRelatorio(cob, rv, rp) ==
    << Quadro(Cardinality(DOMAIN cob), Len(ColunasCobertura)),
       Quadro(Cardinality(DOMAIN rv.linhas), Len(rv.colunas)),
       Quadro(Cardinality(DOMAIN rp.linhas), Len(rp.colunas)) >>

\* The return value with the header row forgotten.
ProximaLinhaSemCabecalho(linha_inicial, n) == linha_inicial + n + 1

\* linha = linha_inicial + 1; return linha + len(df) + 1
ProximaLinha(linha_inicial, n) == (linha_inicial + 1) + n + 1

\* The cells one call writes: the title at (linha_inicial, 1), then the rows
\* of dataframe_to_rows(header=True) from linha = linha_inicial + 1 on: the
\* header at linha, data row i at linha + i.
CelulasDaTabela(k, t, linha_inicial) ==
    LET linha == linha_inicial + 1
    IN  {[row |-> linha_inicial, col |-> 1, tab |-> k, tipo |-> "titulo"]}
        \cup {[row |-> linha + i, col |-> c, tab |-> k,
               tipo |-> IF linha + i = linha THEN "cabecalho" ELSE "dado"] :
                 i \in 0..t.n, c \in 1..t.cols}

\* ws.cell(row, column, value) replaces what the cell held.
Escrever(cells, novas) ==
    {c \in cells : ~ \E x \in novas : x.row = c.row /\ x.col = c.col} \cup novas

----------------------------------------------------------------------------
(* The script, step by step *)

SemTabela == [colunas |-> <<>>, linhas |-> <<>>]

\* pd.read_excel: the rows of the uploaded file, one at a time.
CarregarLinha ==
    /\ pc = "upload"
    /\ Len(df) < MaxLinhasDf
    /\ \E r \in LinhasDf : df' = Append(df, r)
    /\ UNCHANGED <<observed, pc, faixa, cobertura, resumo_valores,
                   resumo_percentuais, tabelas, ws, merged, linha_atual, chamadas>>

\* The coverage summary, the faixa column and the absolute distribution.
\* An upload with no data row is not modelled.
Agregar ==
    /\ pc = "upload"
    /\ df # <<>>
    /\ cobertura' = Cobertura(df)
    /\ faixa' = Faixas(df)
    /\ resumo_valores' = ResumoValores(df, faixa', observed)
    /\ pc' = "agregado"
    /\ UNCHANGED <<df, observed, resumo_percentuais, tabelas, ws, merged,
                   linha_atual, chamadas>>

Normalizar ==
    /\ pc = "agregado"
    /\ resumo_percentuais' = ResumoPercentuais(resumo_valores)
    /\ pc' = "normalizado"
    /\ UNCHANGED <<df, observed, faixa, cobertura, resumo_valores, tabelas, ws,
                   merged, linha_atual, chamadas>>

\* wb = Workbook(); ws = wb.active; linha_atual = 1
AbrirPlanilha ==
    /\ pc = "normalizado"
    /\ tabelas' = QuadrosDoRelatorio(cobertura, resumo_valores, resumo_percentuais)
    /\ ws' = {}
    /\ merged' = {}
    /\ linha_atual' = 1
    /\ chamadas' = <<>>
    /\ pc' = "exportar"
    /\ UNCHANGED <<df, observed, faixa, cobertura, resumo_valores, resumo_percentuais>>

\* linha_atual = escrever_tabela_com_estilo(ws, <next frame>, titulo, linha_atual)
EscreverTabela ==
    /\ pc = "exportar"
    /\ Len(chamadas) < Len(tabelas)
    /\ LET k == Len(chamadas) + 1
           t == tabelas[k]
           retorno == ProximaLinha(linha_atual, t.n)
       IN  /\ merged' = merged \cup {[row |-> linha_atual, de |-> 1, ate |-> t.cols]}
           /\ ws' = Escrever(ws, CelulasDaTabela(k, t, linha_atual))
           /\ chamadas' = Append(chamadas, [linha_inicial |-> linha_atual, n |-> t.n,
                                            cols |-> t.cols, retorno |-> retorno])
           /\ linha_atual' = retorno
           /\ pc' = IF k = Len(tabelas) THEN "fim" ELSE "exportar"
    /\ UNCHANGED <<df, observed, faixa, cobertura, resumo_valores, resumo_percentuais,
                   tabelas>>

----------------------------------------------------------------------------
(* Specifications *)

\* The whole script on an uploaded table.
Init ==
    /\ df = <<>>
    /\ observed \in BOOLEAN
    /\ pc = "upload"
    /\ faixa = <<>>
    /\ cobertura = <<>>
    /\ resumo_valores = SemTabela
    /\ resumo_percentuais = SemTabela
    /\ tabelas = <<>>
    /\ ws = {}
    /\ merged = {}
    /\ linha_atual = 1
    /\ chamadas = <<>>

Next == CarregarLinha \/ Agregar \/ Normalizar \/ AbrirPlanilha \/ EscreverTabela

Spec == Init /\ [][Next]_vars

\* The bucketing of one row, its coverage swept across every bin edge.
CoberturasVarridas == (Bins[1] - MargemCobertura) .. (Bins[Len(Bins)] + MargemCobertura)

InitFaixa ==
    /\ \E c \in CoberturasVarridas :
          df = << [filial |-> "A", cobertura_dias |-> c, valor_estoque |-> 100,
                   saldo_pedido |-> 30] >>
    /\ observed \in BOOLEAN
    /\ pc = "upload"
    /\ faixa = <<>>
    /\ cobertura = <<>>
    /\ resumo_valores = SemTabela
    /\ resumo_percentuais = SemTabela
    /\ tabelas = <<>>
    /\ ws = {}
    /\ merged = {}
    /\ linha_atual = 1
    /\ chamadas = <<>>

NextFaixa == Agregar

SpecFaixa == InitFaixa /\ [][NextFaixa]_vars

\* The normalizer on a drawn distribution row of one branch (the table as it
\* stands after the aggregation; the other frames play no part in it).
ValoresDistribuicao == -1 .. MaxValor

InitNormalizador ==
    /\ df = <<>>
    /\ observed \in BOOLEAN
    /\ pc = "agregado"
    /\ faixa = <<>>
    /\ cobertura = <<>>
    /\ \E b \in [Range(Labels) -> ValoresDistribuicao] :
          resumo_valores =
            [colunas |-> <<"filial">> \o Labels \o <<"TOTAL">>,
             linhas |-> [f \in {"A"} |->
                           [c \in Range(Labels) \cup {"TOTAL"} |->
                               IF c = "TOTAL" THEN SomaLinha(Labels, b) ELSE b[c]]]]
    /\ resumo_percentuais = SemTabela
    /\ tabelas = <<>>
    /\ ws = {}
    /\ merged = {}
    /\ linha_atual = 1
    /\ chamadas = <<>>

NextNormalizador == Normalizar

SpecNormalizador == InitNormalizador /\ [][NextNormalizador]_vars

\* The sheet writer chained over three drawn frames, from row 1.
InitLayout ==
    /\ df = <<>>
    /\ observed \in BOOLEAN
    /\ pc = "exportar"
    /\ faixa = <<>>
    /\ cobertura = <<>>
    /\ resumo_valores = SemTabela
    /\ resumo_percentuais = SemTabela
    /\ tabelas \in [1..3 -> [n : 0..MaxLinhas, cols : 1..MaxColunas]]
    /\ ws = {}
    /\ merged = {}
    /\ linha_atual = 1
    /\ chamadas = <<>>

NextLayout == EscreverTabela

SpecLayout == InitLayout /\ [][NextLayout]_vars

----------------------------------------------------------------------------
(* Properties *)

\* Sum of v[i] over the indices i of a finite set.
RECURSIVE SomaSobre(_, _)
SomaSobre(S, v) ==
    IF S = {} THEN 0
    ELSE LET x == CHOOSE y \in S : TRUE IN v[x] + SomaSobre(S \ {x}, v)

LinhasDaFilial(f) == {i \in DOMAIN df : df[i].filial = f}

FiliaisComLinha == {df[i].filial : i \in DOMAIN df}

Agregado == pc # "upload"

Normalizado == pc \in {"normalizado", "exportar", "fim"}

\* Last row a call wrote: its header row when the frame has no data row.
UltimaLinha(ch) == ch.linha_inicial + 1 + ch.n

\* C1: every call of the sheet writer on a frame of n data rows at row s
\* returns s + n + 3 (title, header, n data rows and one blank row).
C1_RetornoContaLinhaEmBranco ==
    \A i \in DOMAIN chamadas :
        chamadas[i].retorno = chamadas[i].linha_inicial + chamadas[i].n + 3

\* C2: once the three tables are written, the row after each table's last row
\* holds no cell, and the next table's title is in the row after that one.
C2_UmaLinhaEmBrancoAposCadaTabela ==
    pc = "fim" =>
        /\ \A k \in DOMAIN chamadas :
              ~ \E c \in ws : c.row = UltimaLinha(chamadas[k]) + 1
        /\ \A k \in 1..(Len(chamadas) - 1) :
              chamadas[k + 1].linha_inicial = UltimaLinha(chamadas[k]) + 2

\* C3: in the percent table a row whose TOTAL is 0 holds 0 in every bucket;
\* a row whose TOTAL is not 0 holds, in every bucket, the hundredth nearest to
\* value / TOTAL * 100; and the percent table has no TOTAL column.
C3_NormalizadorComTotalZero ==
    Normalizado =>
        \A f \in DOMAIN resumo_valores.linhas :
            LET abs == resumo_valores.linhas[f]
                per == resumo_percentuais.linhas[f]
                T == abs["TOTAL"]
            IN  /\ "TOTAL" \notin DOMAIN per
                /\ "TOTAL" \notin Range(resumo_percentuais.colunas)
                /\ \A c \in DOMAIN abs \ {"TOTAL"} :
                      /\ c \in DOMAIN per
                      /\ T = 0 => per[c] = Num(0)
                      /\ T # 0 => /\ per[c].tipo = "num"
                                  /\ 2 * Abs(per[c].v * T - 10000 * abs[c]) <= Abs(T)

SomaPercentuais(f) ==
    SomaSobre(DOMAIN resumo_percentuais.linhas[f],
              [c \in DOMAIN resumo_percentuais.linhas[f] |->
                  resumo_percentuais.linhas[f][c].v])

\* C4 as stated: for a branch whose TOTAL is greater than 0 the percentages of
\* its row add up to a value in [99.99, 100.01].
C4_SomaEntre9999e10001 ==
    Normalizado =>
        \A f \in DOMAIN resumo_valores.linhas :
            resumo_valores.linhas[f]["TOTAL"] > 0 =>
                SomaPercentuais(f) \in 9999..10001

\* C4 as amended: for a branch whose TOTAL is greater than 0 every percentage
\* is a number and the percentages of its row add up to a value in
\* [99.97, 100.03] (six roundings of at most half a hundredth each).
C4_SomaEntre9997e10003 ==
    Normalizado =>
        \A f \in DOMAIN resumo_valores.linhas :
            resumo_valores.linhas[f]["TOTAL"] > 0 =>
                /\ \A c \in DOMAIN resumo_percentuais.linhas[f] :
                      resumo_percentuais.linhas[f][c].tipo = "num"
                /\ SomaPercentuais(f) \in 9997..10003

\* A branch with TOTAL 7 spread 1,1,1,1,1,2: the rounded percentages add up
\* to 100.02.
C4_Witness ==
    /\ Normalizado
    /\ \E f \in DOMAIN resumo_valores.linhas :
          /\ resumo_valores.linhas[f]["TOTAL"] > 0
          /\ Cardinality(DOMAIN resumo_percentuais.linhas[f]) = Len(Labels)
          /\ SomaPercentuais(f) = 10002

\* C5: for every branch with a row, the bucket values of its distribution row
\* add up to its TOTAL; TOTAL is the sum of saldo_pedido over the rows of the
\* branch; every row of the branch falls in exactly one bucket column; and
\* every bucket value is the sum of saldo_pedido over the rows in that bucket.
C5_TotalSemPerdaNemDuplicacao ==
    Agregado =>
        \A f \in FiliaisComLinha :
            /\ f \in DOMAIN resumo_valores.linhas
            /\ LET linha == resumo_valores.linhas[f]
                   baldes == DOMAIN linha \ {"TOTAL"}
                   saldo == [i \in DOMAIN df |-> df[i].saldo_pedido]
               IN  /\ SomaSobre(baldes, linha) = linha["TOTAL"]
                   /\ linha["TOTAL"] = SomaSobre(LinhasDaFilial(f), saldo)
                   /\ linha["TOTAL"] = cobertura[f].saldo
                   /\ \A i \in LinhasDaFilial(f) :
                         Cardinality({b \in baldes : faixa[i] = b}) = 1
                   /\ \A b \in baldes :
                         linha[b] = SomaSobre({i \in LinhasDaFilial(f) : faixa[i] = b}, saldo)

\* A branch with two rows that carry pending-order value in different buckets.
C5_Witness ==
    /\ Agregado
    /\ \E i, j \in DOMAIN df :
          /\ df[i].filial = df[j].filial
          /\ faixa[i] # faixa[j]
          /\ df[i].cobertura_dias < 0
          /\ df[i].saldo_pedido > 0
          /\ df[j].saldo_pedido > 0
          /\ resumo_valores.linhas[df[i].filial]["TOTAL"]
               = df[i].saldo_pedido + df[j].saldo_pedido

\* The label the bucket boundaries give a coverage value: half-open intervals
\* with inclusive lower bounds.
RotuloEsperado(c) ==
    IF c < 0 THEN "<=0 dias"
    ELSE IF c < 15 THEN "1-15 dias"
    ELSE IF c < 30 THEN "16-30 dias"
    ELSE IF c < 45 THEN "31-45 dias"
    ELSE IF c < 60 THEN "46-60 dias"
    ELSE "Mais de 60 dias"

\* C6: every row gets exactly the label of the half-open interval its coverage
\* lies in: below 0 the first, [0,15) the second, [15,30) the third, [30,45)
\* the fourth, [45,60) the fifth, 60 and above the last.
C6_ClassificacaoPorFaixa ==
    Agregado =>
        /\ DOMAIN faixa = DOMAIN df
        /\ \A i \in DOMAIN df :
              /\ faixa[i] = RotuloEsperado(df[i].cobertura_dias)
              /\ df[i].cobertura_dias = -1 => faixa[i] = Labels[1]
              /\ df[i].cobertura_dias \in {0, 14} => faixa[i] = Labels[2]
              /\ df[i].cobertura_dias = 15 => faixa[i] = Labels[3]
              /\ df[i].cobertura_dias = 60 => faixa[i] = Labels[6]

\* The row on the edge 15 has been classified in "16-30 dias".
C6_Witness ==
    /\ Agregado
    /\ df # <<>>
    /\ df[1].cobertura_dias = 15
    /\ faixa[1] = "16-30 dias"

\* C7: the weighted average of a branch is the hundredth nearest to the
\* stock-value-weighted mean of coverage over its rows with stock value > 0,
\* and exactly 0 when it has no such row; rows (10, 100) and (20, 0) give a
\* weighted average of 10.00 and a simple average of 15.00.
C7_MediaPonderadaSoComEstoquePositivo ==
    Agregado =>
        \A f \in DOMAIN cobertura :
            LET pos == {i \in LinhasDaFilial(f) : df[i].valor_estoque > 0}
                W == SomaSobre(pos, [i \in DOMAIN df |-> df[i].valor_estoque])
                S == SomaSobre(pos, [i \in DOMAIN df |->
                                        df[i].cobertura_dias * df[i].valor_estoque])
            IN  /\ pos = {} => cobertura[f].ponderada = 0
                /\ pos # {} => 2 * Abs(cobertura[f].ponderada * W - 100 * S) <= W
                /\ ( /\ Len(df) = 2
                     /\ df[1].filial = f /\ df[2].filial = f
                     /\ df[1].cobertura_dias = 10 /\ df[1].valor_estoque = 100
                     /\ df[2].cobertura_dias = 20 /\ df[2].valor_estoque = 0 )
                   => /\ cobertura[f].ponderada = 1000
                      /\ cobertura[f].simples = 1500

\* The rows (coverage 10, value 100) and (coverage 20, value 0) of one branch
\* have been aggregated.
C7_Witness ==
    /\ Agregado
    /\ Len(df) = 2
    /\ df[1].filial = df[2].filial
    /\ df[1].cobertura_dias = 10 /\ df[1].valor_estoque = 100
    /\ df[2].cobertura_dias = 20 /\ df[2].valor_estoque = 0
    /\ cobertura[df[1].filial].ponderada = 1000

\* C8: the branches of the coverage summary, of the distribution table and of
\* the percent table are the same set: the branches that have a row of df.
C8_MesmasFiliaisNasTresTabelas ==
    /\ Agregado =>
          /\ DOMAIN cobertura = FiliaisComLinha
          /\ DOMAIN resumo_valores.linhas = FiliaisComLinha
    /\ Normalizado => DOMAIN resumo_percentuais.linhas = FiliaisComLinha

\* Only branch "A" has rows, none of them with positive stock value, and
\* branch "B" is in no table.
C8_Witness ==
    /\ Normalizado
    /\ FiliaisComLinha = {"A"}
    /\ \A i \in DOMAIN df : df[i].valor_estoque <= 0
    /\ "B" \notin DOMAIN cobertura
    /\ "B" \notin DOMAIN resumo_valores.linhas
    /\ "B" \notin DOMAIN resumo_percentuais.linhas

\* C9: the distribution row of every branch with a row has an entry for each
\* of the six buckets, 0 where no row of the branch falls in the bucket.
C9_MatrizDensa ==
    Agregado =>
        \A f \in FiliaisComLinha :
            \A l \in Range(Labels) :
                /\ f \in DOMAIN resumo_valores.linhas
                /\ l \in DOMAIN resumo_valores.linhas[f]
                /\ (\A i \in LinhasDaFilial(f) : faixa[i] # l)
                      => resumo_valores.linhas[f][l] = 0

\* C10: every cell a call wrote still holds what that call wrote, and every
\* row of an earlier table is strictly above every row of a later table.
C10_TabelasNaoSeSobrepoem ==
    /\ \A k \in DOMAIN chamadas :
          CelulasDaTabela(k, tabelas[k], chamadas[k].linha_inicial) \subseteq ws
    /\ \A a, b \in ws : a.tab < b.tab => a.row < b.row
    /\ \A k \in DOMAIN chamadas :
          \A j \in DOMAIN chamadas :
              k < j => UltimaLinha(chamadas[k]) < chamadas[j].linha_inicial

\* The three tables are written, one of them empty and one with two data rows.
C10_Witness ==
    /\ pc = "fim"
    /\ Len(chamadas) = 3
    /\ \E k \in DOMAIN chamadas : chamadas[k].n = 0
    /\ \E k \in DOMAIN chamadas : chamadas[k].n = 2
    /\ \E a, b \in ws : a.tab = 1 /\ b.tab = 3

====
